---- MODULE Spec2Model ----
(***************************************************************************)
(* A model of python/ray/serve/config.py: the validated configuration      *)
(* objects of a Serve deployment (AutoscalingConfig, DeploymentConfig,     *)
(* ReplicaConfig) and their conversion to and from the wire format.        *)
(*                                                                         *)
(* Python values are tagged records, so that values of different Python    *)
(* types can be held in one collection and compared: None, numbers (int or *)
(* float quantities, in whole units), strings, bytes, dicts and lists.     *)
(* A dict is a function from keys (tagged values) to tagged values.        *)
(***************************************************************************)
EXTENDS Integers, Sequences, FiniteSets, TLC

(* ------------------------------ bounds -------------------------------- *)
\* Largest resource quantity drawn for an actor option or a bundle entry.
MaxQty == 1
\* Longest placement_group_bundles list drawn as an input.
MaxBundles == 2
\* Largest replica count drawn for an AutoscalingConfig field.
MaxReplicas == 2
\* Most decodes counted for one lazy accessor of a ReplicaConfig.
MaxDecodes == 2
\* Most keyword arguments drawn for one call of from_default.
MaxOverrides == 2

(* --------------------------- Python values ---------------------------- *)
None == [t |-> "none"]
Num(n) == [t |-> "num", n |-> n]
Str(s) == [t |-> "str", s |-> s]
Dict(f) == [t |-> "dict", d |-> f]
List(l) == [t |-> "list", l |-> l]

\* bytes holding the raw octets b
Raw(b) == [t |-> "bytes", raw |-> b]
\* bytes produced by cloudpickle.dumps(v): never empty, and distinct for
\* distinct v
Pickled(v) == [t |-> "bytes", pickle |-> v]
\* bytes holding the UTF-8 encoding of the non-empty string s
Utf8(s) == [t |-> "bytes", utf8 |-> s]
\* an object json.dumps cannot serialize
Opaque == [t |-> "object"]
\* a tuple
Tuple(l) == [t |-> "tuple", l |-> l]
\* a plain function and a class, by __name__
Function(name) == [t |-> "function", name |-> name]
Class(name) == [t |-> "class", name |-> name]
\* the outcome of an expression that raised
Raised == [t |-> "error"]

EmptyMap == [k \in {} |-> None]

\* dict.get(key, default)
Get(f, key, default) == IF key \in DOMAIN f THEN f[key] ELSE default

Qty == 0..MaxQty

(* ----------------------- ReplicaConfig: validation -------------------- *)
VALID_PLACEMENT_GROUP_STRATEGIES == {"PACK", "SPREAD", "STRICT_PACK", "STRICT_SPREAD"}

allowed_ray_actor_options ==
    {"accelerator_type", "memory", "num_cpus", "num_gpus",
     "object_store_memory", "resources", "runtime_env"}

\* ReplicaConfig._validate_ray_actor_options: the error raised ("ok" when none)
\* for the options dict o.  (ray_option_utils.validate_actor_options accepts
\* every options dict drawn here: its quantities are non-negative numbers.)
ValidateRayActorOptionsErr(o) ==
    IF \E k \in DOMAIN o : k.s \notin allowed_ray_actor_options
    THEN "option_not_allowed"
    ELSE "ok"

\* _validate_ray_actor_options with the num_cpus default left out.
NormalizeRayActorOptions_NoDefault(o) == o

\* ReplicaConfig._validate_ray_actor_options: the options dict it leaves in
\* self.ray_actor_options.  A raise leaves the dict as assigned; otherwise
\* num_cpus is defaulted to 1 when absent or None.
NormalizeRayActorOptions(o) ==
    IF ValidateRayActorOptionsErr(o) # "ok" THEN o
    ELSE IF Get(o, Str("num_cpus"), None) = None
         THEN [k \in DOMAIN o \cup {Str("num_cpus")} |->
                  IF k = Str("num_cpus") THEN Num(1) ELSE o[k]]
         ELSE o

\* The per-bundle shape test of _validate_placement_group_options:
\* a dict whose keys are all str and whose values are all int or float.
BundleShapeOk(b) ==
    /\ b.t = "dict"
    /\ \A k \in DOMAIN b.d : k.t = "str"
    /\ \A k \in DOMAIN b.d : b.d[k].t = "num"

\* The checks made on bundle 0 only: the replica actor must fit in it.
FirstBundleErr(b, o) ==
    LET bundle_cpu == Get(b.d, Str("CPU"), Num(0))
        replica_actor_num_cpus == Get(o, Str("num_cpus"), Num(0))
        bundle_gpu == Get(b.d, Str("GPU"), Num(0))
        replica_actor_num_gpus == Get(o, Str("num_gpus"), Num(0))
        replica_actor_resources == Get(o, Str("resources"), Dict(EmptyMap))
    IN  IF bundle_cpu.n < replica_actor_num_cpus.n THEN "cpu_exceeds_bundle"
        ELSE IF bundle_gpu.n < replica_actor_num_gpus.n THEN "gpu_exceeds_bundle"
        ELSE IF \E r \in DOMAIN replica_actor_resources.d :
                    Get(b.d, r, Num(0)).n < replica_actor_resources.d[r].n
             THEN "resource_exceeds_bundle"
        ELSE "ok"

\* The loop over enumerate(self.placement_group_bundles), from index i on:
\* bundle i is shape-checked, then (i = 0 only) checked against the actor
\* options, before bundle i + 1 is looked at.
RECURSIVE BundleLoopErr(_, _, _)
BundleLoopErr(l, i, o) ==
    IF i > Len(l) THEN "ok"
    ELSE IF ~BundleShapeOk(l[i]) THEN "bundle_malformed"
    ELSE IF i = 1 /\ FirstBundleErr(l[i], o) # "ok" THEN FirstBundleErr(l[i], o)
    ELSE BundleLoopErr(l, i + 1, o)

\* _validate_placement_group_options with the check that a strategy comes
\* with bundles left out.
ValidatePlacementGroupOptionsErr_NoBundlesRequired(s, b, o) ==
    IF s # None /\ s.s \notin VALID_PLACEMENT_GROUP_STRATEGIES
    THEN "invalid_strategy"
    ELSE IF b = None THEN "ok"
    ELSE IF b.t # "list" \/ Len(b.l) = 0 THEN "bundles_not_nonempty_list"
    ELSE BundleLoopErr(b.l, 1, o)

\* ReplicaConfig._validate_placement_group_options: the error raised ("ok"
\* when none) for strategy s, bundles b and actor options o.
ValidatePlacementGroupOptionsErr(s, b, o) ==
    IF s # None /\ s.s \notin VALID_PLACEMENT_GROUP_STRATEGIES
    THEN "invalid_strategy"
    ELSE IF s # None /\ b = None THEN "strategy_without_bundles"
    ELSE IF b = None THEN "ok"
    ELSE IF b.t # "list" \/ Len(b.l) = 0 THEN "bundles_not_nonempty_list"
    ELSE BundleLoopErr(b.l, 1, o)

\* ray._private.utils.resources_from_ray_options, as ReplicaConfig uses it:
\* the custom resources of the options plus CPU and GPU from num_cpus and
\* num_gpus when these are given.
ResourcesFromRayOptions(o) ==
    LET res == Get(o, Str("resources"), Dict(EmptyMap)).d
        cpu == Get(o, Str("num_cpus"), None)
        gpu == Get(o, Str("num_gpus"), None)
        extra == (IF cpu # None THEN {Str("CPU")} ELSE {})
                    \cup (IF gpu # None THEN {Str("GPU")} ELSE {})
    IN  [k \in DOMAIN res \cup extra |->
            IF k = Str("CPU") /\ cpu # None THEN cpu
            ELSE IF k = Str("GPU") /\ gpu # None THEN gpu
            ELSE res[k]]

(* ----------------------- ReplicaConfig: inputs ------------------------ *)
\* ray_actor_options dicts a caller may pass: num_cpus absent, None or a
\* quantity; num_gpus absent or given; resources absent or a dict with one
\* custom resource; and dicts carrying an option outside the allow-list.
NumCpusInputs ==
    {<<{}, None>>} \cup
    {<<{Str("num_cpus")}, v>> : v \in {None} \cup {Num(q) : q \in Qty}}

NumGpusInputs == {<<{}, None>>, <<{Str("num_gpus")}, Num(MaxQty)>>}

ResourcesInputs ==
    {<<{}, None>>,
     <<{Str("resources")}, Dict([k \in {Str("custom")} |-> Num(MaxQty)])>>}

AllowedOptionInputs ==
    { [k \in c[1] \cup g[1] \cup r[1] |->
          IF k = Str("num_cpus") THEN c[2]
          ELSE IF k = Str("num_gpus") THEN g[2]
          ELSE r[2]] :
        c \in NumCpusInputs, g \in NumGpusInputs, r \in ResourcesInputs }

DisallowedOptionInputs ==
    { [k \in {Str("max_restarts")} |-> Num(1)],
      [k \in {Str("num_cpus"), Str("name")} |->
          IF k = Str("num_cpus") THEN Num(MaxQty) ELSE Str("replica")] }

ActorOptionInputs == AllowedOptionInputs \cup DisallowedOptionInputs

\* Well-shaped bundles: {}, {CPU: c} and {CPU, GPU: q, custom: q}.
WellShapedBundles ==
    {Dict(EmptyMap)}
    \cup {Dict([k \in {Str("CPU")} |-> Num(c)]) : c \in Qty}
    \cup {Dict([k \in {Str("CPU"), Str("GPU"), Str("custom")} |->
                  IF k = Str("CPU") THEN Num(MaxQty) ELSE Num(q)]) : q \in Qty}

\* Ill-shaped bundles: a non-str key, a non-numeric value, not a dict.
IllShapedBundles ==
    { Dict([k \in {Num(1)} |-> Num(1)]),
      Dict([k \in {Str("CPU")} |-> Str("one")]),
      Str("CPU") }

FirstBundleInputs == WellShapedBundles \cup IllShapedBundles

\* Bundles drawn for the positions after the first.
LaterBundleInputs ==
    { Dict(EmptyMap),
      Dict([k \in {Str("GPU")} |-> Num(MaxQty)]),
      Dict([k \in {Num(1)} |-> Num(1)]) }

\* First bundles drawn for the lists of two or more bundles: one that
\* covers no actor, one that covers every actor drawn, and an ill-shaped one.
LongListFirstBundles ==
    { Dict(EmptyMap),
      Dict([k \in {Str("CPU"), Str("GPU"), Str("custom")} |-> Num(MaxQty)]),
      Str("CPU") }

\* The bundle lists of length n drawn as inputs.
RECURSIVE BundleLists(_, _)
BundleLists(n, first) ==
    IF n = 0 THEN {<<>>}
    ELSE IF n = 1 THEN {<<b>> : b \in first}
    ELSE {Append(l, b) : l \in BundleLists(n - 1, first), b \in LaterBundleInputs}

\* placement_group_bundles values a caller may pass: None, something that is
\* no list, and lists of up to MaxBundles bundles.
BundlesInputs ==
    {None, Dict(EmptyMap)}
    \cup {List(l) : l \in BundleLists(0, {}) \cup BundleLists(1, FirstBundleInputs)}
    \cup {List(l) : l \in UNION {BundleLists(n, LongListFirstBundles) : n \in 2..MaxBundles}}

StrategyInputs == {None, Str("PACK"), Str("BOGUS")}

(* ------------------------------ state --------------------------------- *)
VARIABLES
    rc,      \* the ReplicaConfig object's fields, and whether it was built
    rcLast,  \* the last ReplicaConfig operation, the error it raised ("ok" when
             \* none), and whether every operation so far raised nothing
    ac,      \* the AutoscalingConfig object's replica fields
    acLast,  \* the last AutoscalingConfig operation, its arguments and errors
    dc,      \* the DeploymentConfig object: its fields, and whether it was built
    dcEnc,   \* the outcome of DeploymentConfig.to_proto on dc
    dcDec,   \* the outcome of DeploymentConfig.from_proto on that message
    dcLast,  \* the last construction, assignment or from_default on dc: its
             \* arguments and the error it raised ("ok" when none)
    rr,      \* a ReplicaConfig with its serialized payloads and its caches
    rrCall,  \* the call that built rr (create or the constructor): its arguments
    th,      \* per thread reading an accessor of rr: its position in the
             \* accessor, the value it decoded and the value it returned
    rrReads, \* per accessor of rr: the decodes that returned, the last read
    rp,      \* the outcome of rr.to_proto()
    r2,      \* the ReplicaConfig that from_proto built from that message
    r2Reads  \* per accessor of r2: what a read of it returned

replicaVars == <<rc, rcLast>>
autoscalingVars == <<ac, acLast>>
deploymentVars == <<dc, dcEnc, dcDec, dcLast>>
codecVars == <<rr, rrCall, th, rrReads, rp, r2, r2Reads>>

vars == <<rc, rcLast, ac, acLast, dc, dcEnc, dcDec, dcLast, rr, rrCall, th, rrReads, rp, r2, r2Reads>>

(* ----------------------- ReplicaConfig: operations -------------------- *)
RcInit ==
    /\ rc = [phase |-> "new",
             ray_actor_options |-> EmptyMap,
             resource_dict |-> EmptyMap,
             placement_group_bundles |-> None,
             placement_group_strategy |-> None]
    /\ rcLast = [op |-> "none", err |-> "ok", clean |-> TRUE]

\* ReplicaConfig.__init__ (the options and placement part).  A raise leaves
\* the half-built object unreturned (phase "failed"), with the attributes
\* assigned so far.
Construct(o, b, s) ==
    /\ rc.phase = "new"
    /\ LET e1 == ValidateRayActorOptionsErr(o)
           o1 == NormalizeRayActorOptions(o)
           e2 == ValidatePlacementGroupOptionsErr(s, b, o1)
       IN  IF e1 # "ok"
           THEN /\ rc' = [rc EXCEPT !.phase = "failed", !.ray_actor_options = o1]
                /\ rcLast' = [op |-> "construct", err |-> e1, clean |-> FALSE]
           ELSE IF e2 # "ok"
           THEN /\ rc' = [rc EXCEPT !.phase = "failed",
                                    !.ray_actor_options = o1,
                                    !.placement_group_bundles = b,
                                    !.placement_group_strategy = s]
                /\ rcLast' = [op |-> "construct", err |-> e2, clean |-> FALSE]
           ELSE /\ rc' = [phase |-> "ready",
                          ray_actor_options |-> o1,
                          resource_dict |-> ResourcesFromRayOptions(o1),
                          placement_group_bundles |-> b,
                          placement_group_strategy |-> s]
                /\ rcLast' = [op |-> "construct", err |-> "ok", clean |-> TRUE]

\* ReplicaConfig.update_ray_actor_options
UpdateRayActorOptions(o) ==
    /\ rc.phase = "ready"
    /\ LET e1 == ValidateRayActorOptionsErr(o)
           o1 == NormalizeRayActorOptions(o)
       IN  /\ rc' = [rc EXCEPT !.ray_actor_options = o1,
                               !.resource_dict =
                                   IF e1 = "ok" THEN ResourcesFromRayOptions(o1) ELSE @]
           /\ rcLast' = [op |-> "update_ray_actor_options", err |-> e1,
                         clean |-> rcLast.clean /\ e1 = "ok"]

\* ReplicaConfig.update_placement_group_options
UpdatePlacementGroupOptions(b, s) ==
    /\ rc.phase = "ready"
    /\ rc' = [rc EXCEPT !.placement_group_bundles = b,
                        !.placement_group_strategy = s]
    /\ LET e2 == ValidatePlacementGroupOptionsErr(s, b, rc.ray_actor_options)
       IN  rcLast' = [op |-> "update_placement_group_options", err |-> e2,
                      clean |-> rcLast.clean /\ e2 = "ok"]

RcConstruct ==
    /\ \E o \in ActorOptionInputs, b \in BundlesInputs, s \in StrategyInputs :
          Construct(o, b, s)
    /\ UNCHANGED <<autoscalingVars, deploymentVars, codecVars>>

RcUpdateRayActorOptions ==
    /\ \E o \in ActorOptionInputs : UpdateRayActorOptions(o)
    /\ UNCHANGED <<autoscalingVars, deploymentVars, codecVars>>

RcUpdatePlacementGroupOptions ==
    /\ \E b \in BundlesInputs, s \in StrategyInputs : UpdatePlacementGroupOptions(b, s)
    /\ UNCHANGED <<autoscalingVars, deploymentVars, codecVars>>

(* --------------------------- AutoscalingConfig ------------------------ *)
\* Field validation of a pydantic model runs in declaration order
\* (min_replicas, initial_replicas, max_replicas); a field that failed its
\* own validation is missing from `values` when a later validator runs.

\* NonNegativeInt
NonNegativeIntOk(v) == v.n >= 0
\* Optional[NonNegativeInt]
OptionalNonNegativeIntOk(v) == v = None \/ v.n >= 0
\* PositiveInt
PositiveIntOk(v) == v.n > 0

\* values.get(name): the validated value, None when the field is absent.
ValuesGet(v, ok) == IF ok THEN v ELSE None

\* AutoscalingConfig.replicas_settings_valid without the upper bound on
\* initial_replicas.
replicas_settings_valid_NoInitialMax(max_replicas, min_replicas, initial_replicas) ==
    IF min_replicas # None /\ max_replicas.n < min_replicas.n
    THEN "max_lt_min"
    ELSE IF initial_replicas # None
    THEN IF min_replicas = None THEN "type_error"
         ELSE IF initial_replicas.n < min_replicas.n THEN "initial_lt_min"
         ELSE "ok"
    ELSE "ok"

\* AutoscalingConfig.replicas_settings_valid(max_replicas, values), with
\* min_replicas and initial_replicas as values.get returns them.  Comparing
\* an int with None raises TypeError, which pydantic reports as a
\* validation error like ValueError.
replicas_settings_valid(max_replicas, min_replicas, initial_replicas) ==
    IF min_replicas # None /\ max_replicas.n < min_replicas.n
    THEN "max_lt_min"
    ELSE IF initial_replicas # None
    THEN IF min_replicas = None THEN "type_error"
         ELSE IF initial_replicas.n < min_replicas.n THEN "initial_lt_min"
         ELSE IF initial_replicas.n > max_replicas.n THEN "initial_gt_max"
         ELSE "ok"
    ELSE "ok"

\* The validation errors of AutoscalingConfig(min_replicas=mn,
\* initial_replicas=ini, max_replicas=mx).  The validator of max_replicas
\* runs after the field's own type validation, and only if that passed.
AutoscalingErrors(mn, ini, mx) ==
    LET minOk == NonNegativeIntOk(mn)
        iniOk == OptionalNonNegativeIntOk(ini)
        maxOk == PositiveIntOk(mx)
        v == replicas_settings_valid(mx, ValuesGet(mn, minOk), ValuesGet(ini, iniOk))
    IN  (IF minOk THEN {} ELSE {"min_replicas_negative"})
        \cup (IF iniOk THEN {} ELSE {"initial_replicas_negative"})
        \cup (IF maxOk THEN {} ELSE {"max_replicas_not_positive"})
        \cup (IF maxOk /\ v # "ok" THEN {v} ELSE {})

ReplicaCounts == {Num(n) : n \in (-1)..MaxReplicas}

AcInit ==
    /\ ac = [phase |-> "new", min_replicas |-> Num(1),
             initial_replicas |-> None, max_replicas |-> Num(1)]
    /\ acLast = [op |-> "none", errors |-> {}, min_replicas |-> Num(1),
                 initial_replicas |-> None, max_replicas |-> Num(1)]

\* AutoscalingConfig(min_replicas=mn, initial_replicas=ini, max_replicas=mx)
AcConstruct ==
    /\ ac.phase = "new"
    /\ \E mn \in ReplicaCounts, ini \in ReplicaCounts \cup {None}, mx \in ReplicaCounts :
          LET errs == AutoscalingErrors(mn, ini, mx)
          IN  /\ ac' = IF errs = {}
                       THEN [phase |-> "ready", min_replicas |-> mn,
                             initial_replicas |-> ini, max_replicas |-> mx]
                       ELSE [ac EXCEPT !.phase = "failed"]
              /\ acLast' = [op |-> "construct", errors |-> errs, min_replicas |-> mn,
                            initial_replicas |-> ini, max_replicas |-> mx]
    /\ UNCHANGED <<replicaVars, deploymentVars, codecVars>>

\* config.<field> = v on a constructed AutoscalingConfig.  The class sets no
\* Config.validate_assignment, so the assignment stores v and runs no
\* validator.
AcAssign(field, v) ==
    /\ ac.phase = "ready"
    /\ ac' = [ac EXCEPT ![field] = v]
    /\ acLast' = [op |-> "assign", errors |-> {}, min_replicas |-> ac'.min_replicas,
                  initial_replicas |-> ac'.initial_replicas,
                  max_replicas |-> ac'.max_replicas]
    /\ UNCHANGED <<replicaVars, deploymentVars, codecVars>>

AcAssignMinReplicas == \E v \in ReplicaCounts : AcAssign("min_replicas", v)
AcAssignMaxReplicas == \E v \in ReplicaCounts : AcAssign("max_replicas", v)
AcAssignInitialReplicas ==
    \E v \in ReplicaCounts \cup {None} : AcAssign("initial_replicas", v)

(* --------------------------- DeploymentConfig ------------------------- *)
\* DeploymentLanguage, the enum of the generated wire schema
PYTHON == 0
JAVA == 1
DeploymentLanguages == {PYTHON, JAVA}

DEFAULT_MAX_CONCURRENT_QUERIES == 100
DEFAULT_GRACEFUL_SHUTDOWN_TIMEOUT_S == 20
DEFAULT_GRACEFUL_SHUTDOWN_WAIT_LOOP_S == 2
DEFAULT_HEALTH_CHECK_PERIOD_S == 10
DEFAULT_HEALTH_CHECK_TIMEOUT_S == 30

\* _needs_pickle with the cross-language flag ignored.
needs_pickle_IgnoringCrossLanguage(deployment_language, is_cross_language) ==
    deployment_language = PYTHON

\* _needs_pickle(deployment_language, is_cross_language)
needs_pickle(deployment_language, is_cross_language) ==
    IF deployment_language = PYTHON /\ ~is_cross_language THEN TRUE
    ELSE IF deployment_language = JAVA /\ is_cross_language THEN TRUE
    ELSE FALSE

\* DeploymentConfig.set_max_queries_by_mode: the error, "ok" when none.
set_max_queries_by_mode_err(v) ==
    IF v = None THEN "ok"
    ELSE IF v.n <= 0 THEN "max_concurrent_queries_not_positive"
    ELSE "ok"

\* set_max_queries_by_mode with the default for None left out.
set_max_queries_by_mode_KeepsNone(v) == v

\* DeploymentConfig.set_max_queries_by_mode: the value stored.
set_max_queries_by_mode(v) ==
    IF v = None THEN Num(DEFAULT_MAX_CONCURRENT_QUERIES) ELSE v

\* Whether json.dumps(v) succeeds.
JsonSerializable(v) == v.t \in {"none", "num", "str", "dict", "list"}

\* DeploymentConfig.user_config_json_serializable: the error, "ok" when none.
user_config_json_serializable_err(v) ==
    IF v.t = "bytes" THEN "ok"
    ELSE IF v # None /\ ~JsonSerializable(v) THEN "user_config_not_json_serializable"
    ELSE "ok"

\* The validation errors of DeploymentConfig(**data), for the fields drawn
\* here (the other fields hold values of their declared types).
DeploymentErrors(data) ==
    (IF NonNegativeIntOk(data.num_replicas) THEN {} ELSE {"num_replicas_negative"})
    \cup ({set_max_queries_by_mode_err(data.max_concurrent_queries)} \ {"ok"})
    \cup ({user_config_json_serializable_err(data.user_config)} \ {"ok"})

\* The fields of the DeploymentConfig that DeploymentConfig(**data) builds.
DeploymentFields(data) ==
    [data EXCEPT !.max_concurrent_queries = set_max_queries_by_mode(@)]

\* A DeploymentConfig with every field at its default.
DefaultDeploymentData ==
    [num_replicas |-> Num(1),
     max_concurrent_queries |-> None,
     user_config |-> None,
     graceful_shutdown_timeout_s |-> Num(DEFAULT_GRACEFUL_SHUTDOWN_TIMEOUT_S),
     graceful_shutdown_wait_loop_s |-> Num(DEFAULT_GRACEFUL_SHUTDOWN_WAIT_LOOP_S),
     health_check_period_s |-> Num(DEFAULT_HEALTH_CHECK_PERIOD_S),
     health_check_timeout_s |-> Num(DEFAULT_HEALTH_CHECK_TIMEOUT_S),
     autoscaling_config |-> None,
     is_cross_language |-> FALSE,
     deployment_language |-> PYTHON,
     version |-> None,
     user_configured_option_names |-> {}]

(* ---- the wire message (DeploymentConfigProto) ---- *)
\* A bytes field of a message: None leaves it at its default b"", a bytes
\* value is stored, anything else is a TypeError.
ProtoBytesErr(v) == IF v = None \/ v.t = "bytes" THEN "ok" ELSE "type_error"
ProtoBytes(v) == IF v = None THEN Raw(<<>>) ELSE v
\* A string field of a message: None leaves it at its default "".
ProtoString(v) == IF v = None THEN Str("") ELSE v

\* list(names): the names in some order.
RECURSIVE SetToList(_)
SetToList(S) ==
    IF S = {} THEN <<>>
    ELSE LET x == CHOOSE y \in S : TRUE IN <<x>> \o SetToList(S \ {x})
\* set(names)
ListToSet(l) == {l[i] : i \in 1..Len(l)}

\* AutoscalingConfigProto(**data["autoscaling_config"]): the nested message.
\* initial_replicas = None leaves the optional field unset.
AutoscalingToProto(a) ==
    [min_replicas |-> a.min_replicas.n,
     max_replicas |-> a.max_replicas.n,
     has_initial_replicas |-> a.initial_replicas # None,
     initial_replicas |-> IF a.initial_replicas # None THEN a.initial_replicas.n ELSE 0]

\* MessageToDict of the nested message, as keyword arguments of
\* AutoscalingConfig: an unset optional field is left out, so
\* initial_replicas takes its default None.
AutoscalingFromProto(m) ==
    [min_replicas |-> Num(m.min_replicas),
     initial_replicas |-> IF m.has_initial_replicas THEN Num(m.initial_replicas) ELSE None,
     max_replicas |-> Num(m.max_replicas)]

\* DeploymentConfig.to_proto: the user_config put into the message.
ToProtoUserConfig(c) ==
    IF c.user_config # None /\ needs_pickle(c.deployment_language, c.is_cross_language)
    THEN Pickled(c.user_config)
    ELSE c.user_config

\* DeploymentConfig.to_proto: the error raised, "ok" when none.
ToProtoErr(c) == ProtoBytesErr(ToProtoUserConfig(c))

\* DeploymentConfig.to_proto: the message built from config c.
ToProto(c) ==
    [num_replicas |-> c.num_replicas.n,
     max_concurrent_queries |-> c.max_concurrent_queries.n,
     user_config |-> ProtoBytes(ToProtoUserConfig(c)),
     graceful_shutdown_timeout_s |-> c.graceful_shutdown_timeout_s.n,
     graceful_shutdown_wait_loop_s |-> c.graceful_shutdown_wait_loop_s.n,
     health_check_period_s |-> c.health_check_period_s.n,
     health_check_timeout_s |-> c.health_check_timeout_s.n,
     has_autoscaling_config |-> c.autoscaling_config # None,
     autoscaling_config |->
         IF c.autoscaling_config # None
         THEN AutoscalingToProto(c.autoscaling_config)
         ELSE AutoscalingToProto([min_replicas |-> Num(0), initial_replicas |-> None,
                                  max_replicas |-> Num(0)]),
     is_cross_language |-> c.is_cross_language,
     deployment_language |-> c.deployment_language,
     version |-> ProtoString(c.version),
     user_configured_option_names |-> SetToList(c.user_configured_option_names)]

\* cloudpickle.loads(b): the pickled object; "error" for bytes that are no
\* pickle.
PickleLoads(b) == IF "pickle" \in DOMAIN b THEN b.pickle ELSE Raised

\* Whether MessageToDict renders the bytes field as "".
IsEmptyBytes(b) == "raw" \in DOMAIN b /\ b.raw = <<>>

\* from_proto's user_config decoding with the pickle branch left out.
FromProtoUserConfig_NeverUnpickles(m) ==
    IF ~IsEmptyBytes(m.user_config) THEN m.user_config ELSE None

\* DeploymentConfig.from_proto: data["user_config"] decoded from message m.
FromProtoUserConfig(m) ==
    IF ~IsEmptyBytes(m.user_config)
    THEN IF needs_pickle(m.deployment_language, m.is_cross_language)
         THEN PickleLoads(m.user_config)
         ELSE m.user_config
    ELSE None

\* DeploymentConfig.from_proto: data["version"] decoded from message m.
FromProtoVersion(m) == IF m.version = Str("") THEN None ELSE m.version

\* DeploymentConfig.from_proto: the keyword arguments passed to cls(**data).
FromProtoData(m) ==
    [num_replicas |-> Num(m.num_replicas),
     max_concurrent_queries |-> Num(m.max_concurrent_queries),
     user_config |-> FromProtoUserConfig(m),
     graceful_shutdown_timeout_s |-> Num(m.graceful_shutdown_timeout_s),
     graceful_shutdown_wait_loop_s |-> Num(m.graceful_shutdown_wait_loop_s),
     health_check_period_s |-> Num(m.health_check_period_s),
     health_check_timeout_s |-> Num(m.health_check_timeout_s),
     autoscaling_config |->
         IF m.has_autoscaling_config
         THEN AutoscalingFromProto(m.autoscaling_config)
         ELSE None,
     is_cross_language |-> m.is_cross_language,
     deployment_language |-> m.deployment_language,
     version |-> FromProtoVersion(m),
     user_configured_option_names |-> ListToSet(m.user_configured_option_names)]

\* The validation errors of cls(**data) in from_proto, the nested
\* AutoscalingConfig(**data["autoscaling_config"]) included.
FromProtoErrors(data) ==
    DeploymentErrors(data)
    \cup (IF data.autoscaling_config # None
          THEN AutoscalingErrors(data.autoscaling_config.min_replicas,
                                 data.autoscaling_config.initial_replicas,
                                 data.autoscaling_config.max_replicas)
          ELSE {})

(* ---- inputs ---- *)
UserConfigInputs ==
    { None, Raw(<<>>), Raw(<<1>>), Str(""), Str("cfg"),
      Dict(EmptyMap), Dict([k \in {Str("threshold")} |-> Num(1)]), Opaque }

VersionInputs == {None, Str(""), Str("v1")}

AutoscalingInputs ==
    { None,
      [min_replicas |-> Num(0), initial_replicas |-> None, max_replicas |-> Num(MaxReplicas)],
      [min_replicas |-> Num(1), initial_replicas |-> Num(1), max_replicas |-> Num(MaxReplicas)] }

MaxConcurrentQueriesInputs == {None, Num(0), Num(MaxReplicas)}

OptionNamesInputs == {{}, {"num_replicas", "version"}}

DcInit ==
    /\ dc = [phase |-> "new", errors |-> {}, cfg |-> DefaultDeploymentData]
    /\ dcEnc = [phase |-> "none"]
    /\ dcDec = [phase |-> "none"]
    /\ dcLast = [op |-> "none", field |-> "", given |-> None, err |-> "ok",
                 kwargs |-> <<>>]

\* DeploymentConfig(user_config=uc, version=v, ...)
DcConstruct ==
    /\ dc.phase = "new"
    /\ \E uc \in UserConfigInputs, v \in VersionInputs, a \in AutoscalingInputs,
          mcq \in MaxConcurrentQueriesInputs, names \in OptionNamesInputs,
          lang \in DeploymentLanguages, cross \in BOOLEAN :
          LET data == [DefaultDeploymentData EXCEPT
                          !.user_config = uc, !.version = v,
                          !.autoscaling_config = a,
                          !.max_concurrent_queries = mcq,
                          !.user_configured_option_names = names,
                          !.deployment_language = lang,
                          !.is_cross_language = cross]
              errs == DeploymentErrors(data)
          IN  dc' = IF errs = {}
                    THEN [phase |-> "ready", errors |-> {}, cfg |-> DeploymentFields(data)]
                    ELSE [phase |-> "failed", errors |-> errs, cfg |-> data]
    /\ UNCHANGED <<dcEnc, dcDec, dcLast, replicaVars, autoscalingVars, codecVars>>

\* dc.to_proto()
DcToProto ==
    /\ dc.phase = "ready"
    /\ dcEnc.phase = "none"
    /\ dcEnc' = IF ToProtoErr(dc.cfg) = "ok"
                THEN [phase |-> "done", err |-> "ok", msg |-> ToProto(dc.cfg),
                      pickled |-> /\ dc.cfg.user_config # None
                                  /\ needs_pickle(dc.cfg.deployment_language,
                                                  dc.cfg.is_cross_language)]
                ELSE [phase |-> "failed", err |-> ToProtoErr(dc.cfg)]
    /\ UNCHANGED <<dc, dcDec, dcLast, replicaVars, autoscalingVars, codecVars>>

\* DeploymentConfig.from_proto(msg)
DcFromProto ==
    /\ dcEnc.phase = "done"
    /\ dcDec.phase = "none"
    /\ LET data == FromProtoData(dcEnc.msg)
           errs == FromProtoErrors(data)
       IN  dcDec' = [phase |-> "done", errors |-> errs,
                     cfg |-> IF errs = {} THEN DeploymentFields(data) ELSE data,
                     unpickled |-> /\ ~IsEmptyBytes(dcEnc.msg.user_config)
                                   /\ needs_pickle(dcEnc.msg.deployment_language,
                                                   dcEnc.msg.is_cross_language)]
    /\ UNCHANGED <<dc, dcEnc, dcLast, replicaVars, autoscalingVars, codecVars>>

(* ---- field validation, assignment and from_default ---- *)
\* NonNegativeFloat
NonNegativeFloatOk(v) == v.n >= 0
\* PositiveFloat
PositiveFloatOk(v) == v.n > 0

\* The fields assigned and overridden here.
AssignableFields ==
    {"num_replicas", "max_concurrent_queries", "user_config",
     "graceful_shutdown_timeout_s", "graceful_shutdown_wait_loop_s",
     "health_check_period_s", "health_check_timeout_s", "version"}

\* Field validation with Config.validate_assignment switched off.
FieldErr_NoValidation(field, v) == "ok"

\* The validation of value v for one field, by its declared type and its
\* validator: the error, "ok" when none.
FieldErr(field, v) ==
    IF field = "num_replicas"
    THEN IF NonNegativeIntOk(v) THEN "ok" ELSE "num_replicas_negative"
    ELSE IF field = "max_concurrent_queries" THEN set_max_queries_by_mode_err(v)
    ELSE IF field = "user_config" THEN user_config_json_serializable_err(v)
    ELSE IF field \in {"graceful_shutdown_timeout_s", "graceful_shutdown_wait_loop_s"}
    THEN IF NonNegativeFloatOk(v) THEN "ok" ELSE field \o "_negative"
    ELSE IF field \in {"health_check_period_s", "health_check_timeout_s"}
    THEN IF PositiveFloatOk(v) THEN "ok" ELSE field \o "_not_positive"
    ELSE "ok"

\* The value that validation stores for the field.
FieldValue(field, v) ==
    IF field = "max_concurrent_queries" THEN set_max_queries_by_mode(v) ELSE v

\* A keyword argument left out of a call.
Omitted == [t |-> "omitted"]

\* DEFAULT.VALUE, the marker of an option left at its default.
DEFAULT_VALUE == [t |-> "default"]

\* from_default: valid_config_options = set(config.dict().keys())
valid_config_options == DOMAIN DefaultDeploymentData

\* The first loop run after the DEFAULT.VALUE entries are dropped.
FromDefaultTypeError_AfterFilter(kwargs) ==
    \E i \in 1..Len(kwargs) :
        kwargs[i][2] # DEFAULT_VALUE /\ kwargs[i][1] \notin valid_config_options

\* from_default, first loop: whether some key of kwargs (a sequence of
\* <<key, val>> pairs, in the order given) is no config option.
FromDefaultTypeError(kwargs) ==
    \E i \in 1..Len(kwargs) : kwargs[i][1] \notin valid_config_options

\* from_default: kwargs without the entries set to DEFAULT.VALUE.
WithoutDefaults(kwargs) == SelectSeq(kwargs, LAMBDA kv : kv[2] # DEFAULT_VALUE)

\* from_default, second loop, from index i on: config.__setattr__(key, val)
\* for each remaining kwarg; the first assignment that fails validation
\* raises and ends the loop.
RECURSIVE ApplyOverrides(_, _, _)
ApplyOverrides(config, kwargs, i) ==
    IF i > Len(kwargs) THEN [err |-> "ok", cfg |-> config]
    ELSE IF FieldErr(kwargs[i][1], kwargs[i][2]) # "ok"
    THEN [err |-> FieldErr(kwargs[i][1], kwargs[i][2]), cfg |-> config]
    ELSE ApplyOverrides(
             [config EXCEPT ![kwargs[i][1]] = FieldValue(kwargs[i][1], kwargs[i][2])],
             kwargs, i + 1)

\* DeploymentConfig.from_default(**kwargs): the error ("ok" when none) and
\* the config built.
FromDefault(kwargs) ==
    LET config == DeploymentFields(DefaultDeploymentData)
    IN  IF FromDefaultTypeError(kwargs) THEN [err |-> "type_error", cfg |-> config]
        ELSE ApplyOverrides(config, WithoutDefaults(kwargs), 1)

(* ---- inputs ---- *)
\* Values assigned to a field: valid and invalid ones.
AssignInputs(field) ==
    IF field = "num_replicas" THEN {Num(-1), Num(0), Num(MaxReplicas)}
    ELSE IF field = "max_concurrent_queries"
    THEN {None, Num(-1), Num(0), Num(MaxReplicas)}
    ELSE IF field = "user_config"
    THEN {None, Raw(<<1>>), Dict([k \in {Str("threshold")} |-> Num(1)]), Opaque}
    ELSE IF field = "version" THEN {None, Str("v1")}
    ELSE {Num(-1), Num(0), Num(1)}

\* Keys passed to from_default: two config options and a name that is none.
OverrideKeys == {"num_replicas", "max_concurrent_queries", "foo"}

OverrideValues(key) ==
    IF key = "max_concurrent_queries"
    THEN {DEFAULT_VALUE, None, Num(0), Num(MaxReplicas)}
    ELSE IF key = "num_replicas" THEN {DEFAULT_VALUE, Num(-1), Num(MaxReplicas)}
    ELSE {DEFAULT_VALUE, Num(1)}

\* The kwargs of n distinct keys, in every order.
RECURSIVE KwargsOfLen(_)
KwargsOfLen(n) ==
    IF n = 0 THEN {<<>>}
    ELSE { Append(kw, <<k, v>>) :
             kw \in KwargsOfLen(n - 1),
             k \in OverrideKeys, v \in UNION {OverrideValues(key) : key \in OverrideKeys} }

KwargsInputs ==
    { kw \in UNION {KwargsOfLen(n) : n \in 0..MaxOverrides} :
        /\ \A i, j \in 1..Len(kw) : kw[i][1] = kw[j][1] => i = j
        /\ \A i \in 1..Len(kw) : kw[i][2] \in OverrideValues(kw[i][1]) }

(* ---- operations ---- *)
\* DeploymentConfig(num_replicas=nr, max_concurrent_queries=mcq), either
\* argument possibly left out.
DcConstructCounts ==
    /\ dc.phase = "new"
    /\ \E nr \in {Omitted} \cup AssignInputs("num_replicas"),
          mcq \in {Omitted} \cup AssignInputs("max_concurrent_queries") :
          LET data == [DefaultDeploymentData EXCEPT
                          !.num_replicas = IF nr = Omitted THEN @ ELSE nr,
                          !.max_concurrent_queries = IF mcq = Omitted THEN @ ELSE mcq]
              errs == DeploymentErrors(data)
          IN  /\ dc' = IF errs = {}
                       THEN [phase |-> "ready", errors |-> {}, cfg |-> DeploymentFields(data)]
                       ELSE [phase |-> "failed", errors |-> errs, cfg |-> data]
              /\ dcLast' = [op |-> "construct", field |-> "max_concurrent_queries",
                            given |-> mcq,
                            err |-> IF errs = {} THEN "ok" ELSE "validation_error",
                            kwargs |-> <<>>]
    /\ UNCHANGED <<dcEnc, dcDec, replicaVars, autoscalingVars, codecVars>>

\* dc = DeploymentConfig.from_default(**kwargs)
DcFromDefault ==
    /\ dc.phase = "new"
    /\ \E kwargs \in KwargsInputs :
          LET r == FromDefault(kwargs)
          IN  /\ dc' = IF r.err = "ok"
                       THEN [phase |-> "ready", errors |-> {}, cfg |-> r.cfg]
                       ELSE [phase |-> "failed", errors |-> {r.err},
                             cfg |-> DefaultDeploymentData]
              /\ dcLast' = [op |-> "from_default", field |-> "", given |-> None,
                            err |-> r.err, kwargs |-> kwargs]
    /\ UNCHANGED <<dcEnc, dcDec, replicaVars, autoscalingVars, codecVars>>

\* dc.<field> = v.  Config.validate_assignment is set: the value is validated
\* first, and a failed validation raises before anything is stored.
DcAssign ==
    /\ dc.phase = "ready"
    /\ \E field \in AssignableFields :
          \E v \in AssignInputs(field) :
              /\ dc' = IF FieldErr(field, v) = "ok"
                       THEN [dc EXCEPT !.cfg[field] = FieldValue(field, v)]
                       ELSE dc
              /\ dcLast' = [op |-> "assign", field |-> field, given |-> v,
                            err |-> FieldErr(field, v), kwargs |-> <<>>]
    /\ UNCHANGED <<dcEnc, dcDec, replicaVars, autoscalingVars, codecVars>>

(* ------------- ReplicaConfig: payloads, accessors, wire --------------- *)
Accessors == {"deployment_def", "init_args", "init_kwargs"}

\* bytes.decode(encoding="utf-8"); pickles and raw octets drawn here are no
\* UTF-8 text.
Utf8Decode(b) ==
    IF b.t # "bytes" THEN Raised
    ELSE IF "utf8" \in DOMAIN b THEN Str(b.utf8)
    ELSE IF IsEmptyBytes(b) THEN Str("")
    ELSE Raised

\* The first-access branch of a lazy accessor of config o: what the decode
\* expression evaluates to (Raised when it raises).
DecodeOf(o, a) ==
    IF a = "deployment_def"
    THEN IF o.needs_pickle THEN PickleLoads(o.serialized_deployment_def)
         ELSE Utf8Decode(o.serialized_deployment_def)
    ELSE IF a = "init_args"
    THEN IF o.needs_pickle THEN PickleLoads(o.serialized_init_args)
         ELSE o.serialized_init_args
    ELSE PickleLoads(o.serialized_init_kwargs)

\* Whether that branch calls cloudpickle.loads.
UsesPickle(o, a) ==
    IF a = "deployment_def" THEN o.needs_pickle
    ELSE IF a = "init_args" THEN o.needs_pickle
    ELSE TRUE

\* Whether that branch calls a decoder (cloudpickle.loads or bytes.decode).
CallsDecoder(o, a) == ~(a = "init_args" /\ ~o.needs_pickle)

\* `if self._<a> is None`: whether a read of accessor a takes the
\* first-access branch.
CacheMiss(o, a) == o.cache[a] = None

\* What a read of accessor a of config o returns (Raised when it raises).
ReadValue(o, a) == IF CacheMiss(o, a) THEN DecodeOf(o, a) ELSE o.cache[a]

\* The config after that read: the decoded value is cached, unless the
\* decode raised.
AfterRead(o, a) ==
    IF CacheMiss(o, a) /\ DecodeOf(o, a) # Raised
    THEN [o EXCEPT !.cache[a] = DecodeOf(o, a)]
    ELSE o

(* ---- JSON text (json.dumps / json.loads) ---- *)
\* json.dumps(v) for None, numbers, strings, lists and dicts with str keys:
\* the JSON document, as a tree of JSON values.
RECURSIVE JsonDumps(_)
JsonDumps(v) ==
    IF v.t = "none" THEN [j |-> "null"]
    ELSE IF v.t = "num" THEN [j |-> "number", n |-> v.n]
    ELSE IF v.t = "str" THEN [j |-> "string", s |-> v.s]
    ELSE IF v.t \in {"list", "tuple"}
    THEN [j |-> "array", items |-> [i \in 1..Len(v.l) |-> JsonDumps(v.l[i])]]
    ELSE [j |-> "object",
          members |-> [name \in {k.s : k \in DOMAIN v.d} |-> JsonDumps(v.d[Str(name)])]]

\* json.loads(text): arrays become lists, objects dicts with str keys.
RECURSIVE JsonLoads(_)
JsonLoads(x) ==
    IF x.j = "null" THEN None
    ELSE IF x.j = "number" THEN Num(x.n)
    ELSE IF x.j = "string" THEN Str(x.s)
    ELSE IF x.j = "array"
    THEN List([i \in 1..Len(x.items) |-> JsonLoads(x.items[i])])
    ELSE Dict([k \in {Str(name) : name \in DOMAIN x.members} |-> JsonLoads(x.members[k.s])])

\* A str holding a JSON document (never the empty string).
JsonText(x) == [t |-> "str", json |-> x]

(* ---- construction ---- *)
NoConfig ==
    [phase |-> "new", err |-> "ok",
     deployment_def_name |-> Str(""),
     serialized_deployment_def |-> None,
     serialized_init_args |-> None,
     serialized_init_kwargs |-> None,
     cache |-> [a \in Accessors |-> None],
     ray_actor_options |-> EmptyMap,
     placement_group_bundles |-> None,
     placement_group_strategy |-> None,
     needs_pickle |-> TRUE]

\* ReplicaConfig.__init__(name, sdef, sargs, skwargs, o, b, s, np): the
\* object built, with phase "failed" and the error when a validator raised.
NewReplicaConfig(name, sdef, sargs, skwargs, o, b, s, np) ==
    LET e1 == ValidateRayActorOptionsErr(o)
        o1 == NormalizeRayActorOptions(o)
        e2 == ValidatePlacementGroupOptionsErr(s, b, o1)
        err == IF e1 # "ok" THEN e1 ELSE e2
    IN  [phase |-> IF err = "ok" THEN "ready" ELSE "failed",
         err |-> err,
         deployment_def_name |-> name,
         serialized_deployment_def |-> sdef,
         serialized_init_args |-> sargs,
         serialized_init_kwargs |-> skwargs,
         cache |-> [a \in Accessors |-> None],
         ray_actor_options |-> o1,
         placement_group_bundles |-> b,
         placement_group_strategy |-> s,
         needs_pickle |-> np]

\* Python truth value of an init_args / init_kwargs argument
Truthy(v) ==
    IF v.t = "none" THEN FALSE
    ELSE IF v.t \in {"tuple", "list"} THEN Len(v.l) > 0
    ELSE IF v.t = "dict" THEN DOMAIN v.d # {}
    ELSE TRUE

\* create with the init_kwargs test for function deployments left out.
CreateErr_ArgsOnly(deployment_def, init_args, init_kwargs) ==
    IF deployment_def.t = "function" /\ Truthy(init_args)
    THEN "init_args_for_function"
    ELSE IF deployment_def.t \notin {"function", "class", "str"}
    THEN "deployment_def_type_error"
    ELSE "ok"

\* ReplicaConfig.create: the error raised before the config is built.
CreateErr(deployment_def, init_args, init_kwargs) ==
    IF deployment_def.t = "function" /\ Truthy(init_args)
    THEN "init_args_for_function"
    ELSE IF deployment_def.t = "function" /\ Truthy(init_kwargs)
    THEN "init_kwargs_for_function"
    ELSE IF deployment_def.t \notin {"function", "class", "str"}
    THEN "deployment_def_type_error"
    ELSE "ok"

\* ReplicaConfig.create(deployment_def, init_args, init_kwargs, o, b, s,
\* deployment_def_name): the config returned, its caches holding the
\* arguments themselves.
Create(deployment_def, init_args, init_kwargs, o, b, s, deployment_def_name) ==
    LET args == IF init_args = None THEN Tuple(<<>>) ELSE init_args
        kwargs == IF init_kwargs = None THEN Dict(EmptyMap) ELSE init_kwargs
        opts == IF o.t = "none" THEN EmptyMap ELSE o.d
        name == IF deployment_def_name # None THEN deployment_def_name
                ELSE IF deployment_def.t = "str" THEN deployment_def
                ELSE Str(deployment_def.name)
        config == NewReplicaConfig(name, Pickled(deployment_def), Pickled(args),
                                   Pickled(kwargs), opts, b, s, TRUE)
    IN  IF CreateErr(deployment_def, init_args, init_kwargs) # "ok"
        THEN [NoConfig EXCEPT !.phase = "failed",
                              !.err = CreateErr(deployment_def, init_args, init_kwargs)]
        ELSE IF config.phase = "failed" THEN config
        ELSE [config EXCEPT !.cache =
                 [a \in Accessors |->
                     IF a = "deployment_def" THEN deployment_def
                     ELSE IF a = "init_args" THEN args ELSE kwargs]]

(* ---- inputs ---- *)
DeploymentDefInputs == {Class("Model"), Function("handler"), Str("app.Model"), Num(1)}
InitArgsInputs == {None, Tuple(<<>>), Tuple(<<Num(1)>>)}
InitKwargsInputs == {None, Dict(EmptyMap), Dict([k \in {Str("size")} |-> Num(1)])}
DeploymentDefNameInputs == {None, Str("custom")}

SerializedDefInputs == {Pickled(Class("Model")), Utf8("io.ray.Model"), Raw(<<>>)}
SerializedArgsInputs ==
    {None, Raw(<<>>), Raw(<<1>>), Pickled(Tuple(<<Num(1)>>)), Pickled(None)}
SerializedKwargsInputs == {None, Raw(<<>>), Pickled(Dict(EmptyMap)), Pickled(None)}

\* (ray_actor_options, placement_group_bundles, placement_group_strategy)
\* triples drawn for the configs that are encoded.
PlacementInputs ==
    { <<EmptyMap, None, None>>,
      <<[k \in {Str("num_cpus"), Str("resources")} |->
            IF k = Str("num_cpus") THEN Num(MaxQty)
            ELSE Dict([r \in {Str("custom")} |-> Num(MaxQty)])],
        List(<<Dict([k \in {Str("CPU"), Str("GPU"), Str("custom")} |-> Num(MaxQty)]),
               Dict([k \in {Str("GPU")} |-> Num(MaxQty)])>>),
        Str("PACK")>>,
      <<[k \in {Str("num_cpus")} |-> Num(0)],
        List(<<Dict([k \in {Str("CPU")} |-> Num(0)])>>),
        None>>,
      <<EmptyMap, None, Str("PACK")>> }

\* The threads that read an accessor of rr, and a thread outside the
\* accessor.
Threads == {"t1", "t2"}
IdleThread == [pc |-> "idle", acc |-> "", tmp |-> None, ret |-> None]

CodecInit ==
    /\ rr = NoConfig
    /\ rrCall = [op |-> "none"]
    /\ th = [t \in Threads |-> IdleThread]
    /\ rrReads = [a \in Accessors |->
                     [decodes |-> 0, last |-> Raised, n |-> 0, first |-> "none"]]
    /\ rp = [phase |-> "none"]
    /\ r2 = NoConfig
    /\ r2Reads = [a \in Accessors |-> [read |-> FALSE, value |-> Raised]]

\* rr = ReplicaConfig.create(...)
RrCreate ==
    /\ rr.phase = "new"
    /\ \E d \in DeploymentDefInputs, ia \in InitArgsInputs, ik \in InitKwargsInputs,
          p \in PlacementInputs, omit \in BOOLEAN, name \in DeploymentDefNameInputs :
          LET o == IF omit THEN None ELSE Dict(p[1])
          IN  /\ rr' = Create(d, ia, ik, o, p[2], p[3], name)
              /\ rrCall' = [op |-> "create", deployment_def |-> d, init_args |-> ia,
                            init_kwargs |-> ik, ray_actor_options |-> o,
                            placement_group_bundles |-> p[2],
                            placement_group_strategy |-> p[3],
                            deployment_def_name |-> name]
    /\ UNCHANGED <<th, rrReads, rp, r2, r2Reads, replicaVars, autoscalingVars, deploymentVars>>

\* rr = ReplicaConfig(name, serialized payloads, ..., needs_pickle)
RrConstruct ==
    /\ rr.phase = "new"
    /\ \E sd \in SerializedDefInputs, sa \in SerializedArgsInputs,
          sk \in SerializedKwargsInputs, p \in PlacementInputs, np \in BOOLEAN :
          /\ rr' = NewReplicaConfig(Str("Model"), sd, sa, sk, p[1], p[2], p[3], np)
          /\ rrCall' = [op |-> "init", serialized_deployment_def |-> sd,
                        serialized_init_args |-> sa, serialized_init_kwargs |-> sk]
    /\ UNCHANGED <<th, rrReads, rp, r2, r2Reads, replicaVars, autoscalingVars, deploymentVars>>

\* A read of rr.<a>.  decodes counts the decoder calls that returned; n
\* counts the reads; first tells what the first read did: "cached" when the
\* cache was filled, else "pickle" when it called cloudpickle.loads, else
\* "other".
RrRead(a) ==
    /\ rr.phase = "ready"
    /\ rrReads[a].decodes < MaxDecodes
    /\ rrReads[a].n < MaxDecodes + 1
    /\ rr' = AfterRead(rr, a)
    /\ rrReads' = [rrReads EXCEPT ![a] =
          [decodes |-> IF CacheMiss(rr, a) /\ CallsDecoder(rr, a)
                          /\ DecodeOf(rr, a) # Raised
                       THEN @.decodes + 1 ELSE @.decodes,
           last |-> ReadValue(rr, a),
           n |-> @.n + 1,
           first |-> IF @.n > 0 THEN @.first
                     ELSE IF ~CacheMiss(rr, a) THEN "cached"
                     ELSE IF UsesPickle(rr, a) THEN "pickle"
                     ELSE "other"]]
    /\ UNCHANGED <<rrCall, th, rp, r2, r2Reads, replicaVars, autoscalingVars, deploymentVars>>

RrReadDeploymentDef == RrRead("deployment_def")
RrReadInitArgs == RrRead("init_args")
RrReadInitKwargs == RrRead("init_kwargs")

(* ---- the accessor run by a thread, statement by statement ---- *)
\* The store that also releases the serialized payload once it is decoded.
StoreCache_ReleasesPayload(o, a, v) ==
    [o EXCEPT !.cache[a] = v, !["serialized_" \o a] = None]

\* `self._<a> = v`
StoreCache(o, a, v) == [o EXCEPT !.cache[a] = v]

\* A thread calls rr.<a>.
ThCall ==
    /\ rr.phase = "ready"
    /\ \E t \in Threads, a \in Accessors :
          /\ th[t].pc = "idle"
          /\ th' = [th EXCEPT ![t] = [@ EXCEPT !.pc = "test", !.acc = a]]
    /\ UNCHANGED <<rr, rrCall, rrReads, rp, r2, r2Reads,
                   replicaVars, autoscalingVars, deploymentVars>>

\* `if self._<a> is None:`
ThTest ==
    /\ \E t \in Threads :
          /\ th[t].pc = "test"
          /\ th' = [th EXCEPT ![t].pc =
                       IF CacheMiss(rr, th[t].acc) THEN "decode" ELSE "return"]
    /\ UNCHANGED <<rr, rrCall, rrReads, rp, r2, r2Reads,
                   replicaVars, autoscalingVars, deploymentVars>>

\* The right-hand side of the assignment: the payload is read and decoded.
\* A decode that raises ends the call.
ThDecode ==
    /\ \E t \in Threads :
          /\ th[t].pc = "decode"
          /\ th' = [th EXCEPT ![t] =
                       IF DecodeOf(rr, th[t].acc) = Raised
                       THEN [@ EXCEPT !.pc = "done", !.ret = Raised]
                       ELSE [@ EXCEPT !.pc = "store", !.tmp = DecodeOf(rr, th[t].acc)]]
    /\ UNCHANGED <<rr, rrCall, rrReads, rp, r2, r2Reads,
                   replicaVars, autoscalingVars, deploymentVars>>

\* The assignment stores the decoded value in the cache.
ThStore ==
    /\ \E t \in Threads :
          /\ th[t].pc = "store"
          /\ rr' = StoreCache(rr, th[t].acc, th[t].tmp)
          /\ th' = [th EXCEPT ![t].pc = "return"]
    /\ UNCHANGED <<rrCall, rrReads, rp, r2, r2Reads,
                   replicaVars, autoscalingVars, deploymentVars>>

\* `return self._<a>`
ThReturn ==
    /\ \E t \in Threads :
          /\ th[t].pc = "return"
          /\ th' = [th EXCEPT ![t] = [@ EXCEPT !.pc = "done", !.ret = rr.cache[th[t].acc]]]
    /\ UNCHANGED <<rr, rrCall, rrReads, rp, r2, r2Reads,
                   replicaVars, autoscalingVars, deploymentVars>>

\* ReplicaConfig.to_proto: the message built from config o.
ReplicaToProto(o) ==
    [deployment_def_name |-> o.deployment_def_name,
     deployment_def |-> ProtoBytes(o.serialized_deployment_def),
     init_args |-> ProtoBytes(o.serialized_init_args),
     init_kwargs |-> ProtoBytes(o.serialized_init_kwargs),
     ray_actor_options |-> JsonText(JsonDumps(Dict(o.ray_actor_options))),
     placement_group_bundles |->
         IF o.placement_group_bundles # None
         THEN JsonText(JsonDumps(o.placement_group_bundles))
         ELSE Str(""),
     placement_group_strategy |-> ProtoString(o.placement_group_strategy)]

\* from_proto with the "" test on placement_group_strategy left out.
ReplicaFromProto_KeepsEmptyStrategy(m, np) ==
    NewReplicaConfig(
        m.deployment_def_name,
        m.deployment_def,
        IF ~IsEmptyBytes(m.init_args) THEN m.init_args ELSE None,
        IF ~IsEmptyBytes(m.init_kwargs) THEN m.init_kwargs ELSE None,
        JsonLoads(m.ray_actor_options.json).d,
        IF m.placement_group_bundles # Str("")
        THEN JsonLoads(m.placement_group_bundles.json) ELSE None,
        m.placement_group_strategy,
        np)

\* ReplicaConfig.from_proto(m, needs_pickle)
ReplicaFromProto(m, np) ==
    NewReplicaConfig(
        m.deployment_def_name,
        m.deployment_def,
        IF ~IsEmptyBytes(m.init_args) THEN m.init_args ELSE None,
        IF ~IsEmptyBytes(m.init_kwargs) THEN m.init_kwargs ELSE None,
        JsonLoads(m.ray_actor_options.json).d,
        IF m.placement_group_bundles # Str("")
        THEN JsonLoads(m.placement_group_bundles.json) ELSE None,
        IF m.placement_group_strategy # Str("") THEN m.placement_group_strategy ELSE None,
        np)

\* rp = rr.to_proto()
RrToProto ==
    /\ rr.phase = "ready"
    /\ rp.phase = "none"
    /\ rp' = [phase |-> "done", msg |-> ReplicaToProto(rr)]
    /\ UNCHANGED <<rr, rrCall, th, rrReads, r2, r2Reads, replicaVars, autoscalingVars, deploymentVars>>

\* r2 = ReplicaConfig.from_proto(rp, rr.needs_pickle)
R2FromProto ==
    /\ rp.phase = "done"
    /\ r2.phase = "new"
    /\ r2' = ReplicaFromProto(rp.msg, rr.needs_pickle)
    /\ UNCHANGED <<rr, rrCall, th, rrReads, rp, r2Reads, replicaVars, autoscalingVars, deploymentVars>>

\* A read of r2.<a>
R2Read(a) ==
    /\ r2.phase = "ready"
    /\ ~r2Reads[a].read
    /\ r2' = AfterRead(r2, a)
    /\ r2Reads' = [r2Reads EXCEPT ![a] = [read |-> TRUE, value |-> ReadValue(r2, a)]]
    /\ UNCHANGED <<rr, rrCall, th, rrReads, rp, replicaVars, autoscalingVars, deploymentVars>>

R2ReadDeploymentDef == R2Read("deployment_def")
R2ReadInitArgs == R2Read("init_args")
R2ReadInitKwargs == R2Read("init_kwargs")

(* --------------------------- specifications --------------------------- *)
Init == RcInit /\ AcInit /\ DcInit /\ CodecInit

\* ReplicaConfig: construction and the two update operations.
Next ==
    \/ RcConstruct
    \/ RcUpdateRayActorOptions
    \/ RcUpdatePlacementGroupOptions

Spec == Init /\ [][Next]_vars

\* AutoscalingConfig: construction and field assignment.
NextAutoscaling ==
    \/ AcConstruct
    \/ AcAssignMinReplicas
    \/ AcAssignMaxReplicas
    \/ AcAssignInitialReplicas

SpecAutoscaling == Init /\ [][NextAutoscaling]_vars

\* DeploymentConfig: construction, to_proto and from_proto.
NextDeployment ==
    \/ DcConstruct
    \/ DcToProto
    \/ DcFromProto

SpecDeployment == Init /\ [][NextDeployment]_vars

\* DeploymentConfig: construction, from_default and field assignment.
NextAssignment ==
    \/ DcConstructCounts
    \/ DcFromDefault
    \/ DcAssign

SpecAssignment == Init /\ [][NextAssignment]_vars

\* ReplicaConfig: construction and reads of the lazy accessors.
NextLazy ==
    \/ RrCreate
    \/ RrConstruct
    \/ RrReadDeploymentDef
    \/ RrReadInitArgs
    \/ RrReadInitKwargs

SpecLazy == Init /\ [][NextLazy]_vars

\* ReplicaConfig: construction, to_proto, from_proto and reads of the
\* decoded config's accessors.
NextCodec ==
    \/ RrCreate
    \/ RrConstruct
    \/ RrToProto
    \/ R2FromProto
    \/ R2ReadDeploymentDef
    \/ R2ReadInitArgs
    \/ R2ReadInitKwargs

SpecCodec == Init /\ [][NextCodec]_vars

\* ReplicaConfig: construction, and two threads that each read an accessor,
\* their statements interleaved.
NextThreads ==
    \/ RrCreate
    \/ RrConstruct
    \/ ThCall
    \/ ThTest
    \/ ThDecode
    \/ ThStore
    \/ ThReturn

SpecThreads == Init /\ [][NextThreads]_vars

(* ============================ claims ================================== *)

PlacementOps == {"construct", "update_placement_group_options"}
UpdateOps == {"update_ray_actor_options", "update_placement_group_options"}

\* C1: in every ReplicaConfig reached by a successful construction and then
\* only successful updates, if placement_group_bundles is set then bundle 0
\* covers the actor: CPU >= num_cpus, GPU >= num_gpus and, for every custom
\* resource of the actor, the bundle's quantity >= the actor's (absent
\* entries count as 0).
C1_Bundle0CoversActor ==
    (rc.phase = "ready" /\ rcLast.clean /\ rc.placement_group_bundles # None) =>
        LET b0 == rc.placement_group_bundles.l[1].d
            o == rc.ray_actor_options
            res == Get(o, Str("resources"), Dict(EmptyMap)).d
        IN  /\ Get(b0, Str("CPU"), Num(0)).n >= Get(o, Str("num_cpus"), Num(0)).n
            /\ Get(b0, Str("GPU"), Num(0)).n >= Get(o, Str("num_gpus"), Num(0)).n
            /\ \A k \in DOMAIN res : Get(b0, k, Num(0)).n >= res[k].n

\* C2: an update that fails its validation leaves ray_actor_options,
\* resource_dict, placement_group_bundles and placement_group_strategy as
\* they were before the call.
C2_FailedUpdateLeavesConfig ==
    [][(rcLast'.op \in UpdateOps /\ rcLast'.err # "ok") =>
          /\ rc'.ray_actor_options = rc.ray_actor_options
          /\ rc'.resource_dict = rc.resource_dict
          /\ rc'.placement_group_bundles = rc.placement_group_bundles
          /\ rc'.placement_group_strategy = rc.placement_group_strategy]_vars

\* A non-empty list of non-empty maps from str names to int-or-float
\* quantities.
IsNonEmptyListOfNonEmptyResourceMaps(b) ==
    /\ b.t = "list"
    /\ Len(b.l) > 0
    /\ \A i \in 1..Len(b.l) :
          /\ b.l[i].t = "dict"
          /\ DOMAIN b.l[i].d # {}
          /\ \A k \in DOMAIN b.l[i].d : k.t = "str" /\ b.l[i].d[k].t = "num"

\* C9: construction and update_placement_group_options fail whenever
\* placement_group_bundles is set and is not a non-empty list of non-empty
\* maps from string names to numeric quantities, at every bundle index.
C9_MalformedBundlesRejected ==
    (/\ rcLast.op \in PlacementOps
     /\ rc.placement_group_bundles # None
     /\ ~IsNonEmptyListOfNonEmptyResourceMaps(rc.placement_group_bundles))
        => rcLast.err # "ok"

\* C10: after a successful construction or a successful
\* update_placement_group_options, placement_group_strategy is unset, or is
\* one of the valid strategies with placement_group_bundles set.
C10_StrategyValidWithBundles ==
    (rcLast.op \in PlacementOps /\ rcLast.err = "ok") =>
        \/ rc.placement_group_strategy = None
        \/ /\ rc.placement_group_strategy.s \in
                 {"PACK", "SPREAD", "STRICT_PACK", "STRICT_SPREAD"}
           /\ rc.placement_group_bundles # None

\* C10 witness: update_placement_group_options has succeeded with a strategy.
C10_Witness ==
    /\ rcLast.op = "update_placement_group_options"
    /\ rcLast.err = "ok"
    /\ rcLast.clean
    /\ rc.placement_group_strategy = Str("PACK")
    /\ rc.placement_group_bundles # None

\* C3: in every state of a constructed AutoscalingConfig, after any
\* assignments, min_replicas <= max_replicas and, when initial_replicas is
\* set, min_replicas <= initial_replicas <= max_replicas.
C3_AutoscalingInvariantKept ==
    ac.phase = "ready" =>
        /\ ac.min_replicas.n <= ac.max_replicas.n
        /\ ac.initial_replicas # None =>
              /\ ac.min_replicas.n <= ac.initial_replicas.n
              /\ ac.initial_replicas.n <= ac.max_replicas.n

\* C4: AutoscalingConfig(min, initial, max) succeeds when min >= 0, max >= 1,
\* min <= max and initial is unset or min <= initial <= max; it fails when
\* max < min, or initial is set and below min or above max.
C4_ConstructionDecided ==
    acLast.op = "construct" =>
        LET mn == acLast.min_replicas.n
            mx == acLast.max_replicas.n
            ini == acLast.initial_replicas
        IN  /\ (/\ mn >= 0 /\ mx >= 1 /\ mn <= mx
                /\ (ini = None \/ (mn <= ini.n /\ ini.n <= mx)))
                  => (acLast.errors = {} /\ ac.phase = "ready")
            /\ (\/ mx < mn
                \/ (ini # None /\ ini.n < mn)
                \/ (ini # None /\ ini.n > mx))
                  => (acLast.errors # {} /\ ac.phase = "failed")

\* C4 witness: a construction with valid min and max and initial_replicas
\* above max_replicas was rejected.
C4_Witness ==
    /\ acLast.op = "construct"
    /\ acLast.min_replicas.n >= 0
    /\ acLast.max_replicas.n >= 1
    /\ acLast.min_replicas.n <= acLast.max_replicas.n
    /\ acLast.initial_replicas # None
    /\ acLast.initial_replicas.n > acLast.max_replicas.n
    /\ acLast.errors = {"initial_gt_max"}
    /\ ac.phase = "failed"

\* C5 as claimed: for any valid DeploymentConfig c,
\* from_proto(to_proto(c)) equals c field for field.
C5_RoundTripAnyConfig ==
    dcDec.phase = "done" => (dcDec.errors = {} /\ dcDec.cfg = dc.cfg)

\* C5 as amended: from_proto(to_proto(c)) equals c field for field whenever
\* to_proto succeeds, version is None or a non-empty string, and user_config
\* is not the empty bytes value sent on the pass-through path.
C5_RoundTrip ==
    (/\ dcDec.phase = "done"
     /\ dc.cfg.version # Str("")
     /\ ~(/\ dc.cfg.user_config = Raw(<<>>)
          /\ ~needs_pickle(dc.cfg.deployment_language, dc.cfg.is_cross_language)))
        => (dcDec.errors = {} /\ dcDec.cfg = dc.cfg)

\* C5 witness: a config with a non-empty user_config, a version, an
\* autoscaling_config and option names went through the pickled path and back.
C5_Witness ==
    /\ dcDec.phase = "done"
    /\ dcEnc.pickled
    /\ dc.cfg.user_config = Dict([k \in {Str("threshold")} |-> Num(1)])
    /\ dc.cfg.version = Str("v1")
    /\ dc.cfg.autoscaling_config # None
    /\ dc.cfg.user_configured_option_names # {}
    /\ dcDec.cfg = dc.cfg

\* C7: needs_pickle is true exactly for (PYTHON, false) and (JAVA, true), and
\* to_proto and from_proto choose the same user_config path: the decoder
\* unpickles exactly the messages whose user_config the encoder pickled.
C7_NeedsPickleTable ==
    /\ \A l \in DeploymentLanguages, x \in BOOLEAN :
          needs_pickle(l, x) <=> ((l = PYTHON /\ ~x) \/ (l = JAVA /\ x))
    /\ dcDec.phase = "done" => (dcDec.unpickled <=> dcEnc.pickled)

\* C7 witness: a Java cross-language config was pickled and unpickled.
C7_Witness ==
    /\ dcDec.phase = "done"
    /\ dc.cfg.deployment_language = JAVA
    /\ dc.cfg.is_cross_language
    /\ dcEnc.pickled
    /\ dcDec.unpickled

\* The decoded config carries rr's actor options and placement options.
OptionsCarriedOver ==
    /\ r2.phase = "ready"
    /\ r2.ray_actor_options = rr.ray_actor_options
    /\ r2.placement_group_bundles = rr.placement_group_bundles
    /\ r2.placement_group_strategy = rr.placement_group_strategy

\* C6 as claimed: for any valid ReplicaConfig r, the config decoded from
\* r.to_proto() has r's ray_actor_options, placement_group_bundles and
\* placement_group_strategy, and each of its accessors deployment_def,
\* init_args and init_kwargs resolves to what r's accessor resolves to.
C6_RoundTripAnyConfig ==
    r2.phase # "new" =>
        /\ OptionsCarriedOver
        /\ \A a \in Accessors :
              r2Reads[a].read => r2Reads[a].value = ReadValue(rr, a)

\* C6 as amended: the same, decoding with r's needs_pickle, except that
\* init_args of a config with needs_pickle = false whose serialized_init_args
\* is the empty byte string is not covered (it resolves to None after the
\* round trip).
C6_RoundTrip ==
    r2.phase # "new" =>
        /\ OptionsCarriedOver
        /\ \A a \in Accessors :
              (/\ r2Reads[a].read
               /\ ~(/\ a = "init_args"
                    /\ ~rr.needs_pickle
                    /\ rr.serialized_init_args = Raw(<<>>)))
                 => r2Reads[a].value = ReadValue(rr, a)

\* C6 witness: a config made by create() with init arguments, bundles and a
\* strategy was encoded and decoded, and all three accessors of the decoded
\* config were read and returned the arguments given to create().
C6_Witness ==
    /\ r2.phase = "ready"
    /\ rr.cache["deployment_def"] = Class("Model")
    /\ rr.cache["init_args"] = Tuple(<<Num(1)>>)
    /\ rr.placement_group_bundles # None
    /\ rr.placement_group_strategy = Str("PACK")
    /\ \A a \in Accessors : r2Reads[a].read /\ r2Reads[a].value = rr.cache[a]

\* C8: for each accessor of a ReplicaConfig, over any sequence of reads, the
\* decoder is called at most once (counting the calls that returned a
\* value), whatever the decoded value is.
C8_DecodeAtMostOnce ==
    \A a \in Accessors : rrReads[a].decodes <= 1

\* C14: in every ReplicaConfig reached by a successful construction and only
\* successful updates, every key of ray_actor_options is in the allow-list
\* and num_cpus is present and not None; num_cpus is 1 when the caller's
\* options had none; and a construction or update_ray_actor_options whose
\* options carry a key outside the allow-list fails.
C14_OptionsAllowedCpuDefaulted ==
    LET allowed == {"accelerator_type", "memory", "num_cpus", "num_gpus",
                    "object_store_memory", "resources", "runtime_env"}
        o == rc.ray_actor_options
    IN  /\ (rc.phase = "ready" /\ rcLast.clean) =>
              /\ \A k \in DOMAIN o : k.s \in allowed
              /\ Str("num_cpus") \in DOMAIN o
              /\ o[Str("num_cpus")] # None
        /\ (/\ rcLast.op \in {"construct", "update_ray_actor_options"}
            /\ \E k \in DOMAIN o : k.s \notin allowed)
              => rcLast.err = "option_not_allowed"
        /\ \A given \in AllowedOptionInputs :
              Get(given, Str("num_cpus"), None) = None =>
                  Get(NormalizeRayActorOptions(given), Str("num_cpus"), None) = Num(1)

\* C14 witness: update_ray_actor_options has succeeded on a config whose
\* operations all succeeded, and the options hold num_gpus and num_cpus = 1.
C14_Witness ==
    /\ rc.phase = "ready"
    /\ rcLast.op = "update_ray_actor_options"
    /\ rcLast.err = "ok"
    /\ rcLast.clean
    /\ Str("num_gpus") \in DOMAIN rc.ray_actor_options
    /\ rc.ray_actor_options[Str("num_cpus")] = Num(1)

\* The error of the first violated placement rule in the declared order:
\* strategy valid, strategy with bundles, bundles well-formed at every
\* index, then bundle 0 against CPU, GPU and the custom resources.
FirstViolatedRule(s, b, o) ==
    IF s # None /\ s.s \notin {"PACK", "SPREAD", "STRICT_PACK", "STRICT_SPREAD"}
    THEN "invalid_strategy"
    ELSE IF s # None /\ b = None THEN "strategy_without_bundles"
    ELSE IF b = None THEN "ok"
    ELSE IF b.t # "list" \/ Len(b.l) = 0 THEN "bundles_not_nonempty_list"
    ELSE IF \E i \in 1..Len(b.l) : ~BundleShapeOk(b.l[i]) THEN "bundle_malformed"
    ELSE FirstBundleErr(b.l[1], o)

\* C15: when the placement options violate several rules at once, the error
\* raised by construction or update_placement_group_options is that of the
\* first violated rule in the declared order; a malformed bundle at an index
\* >= 1 is reported in preference to a resource shortfall in bundle 0.
C15_FirstViolatedRuleReported ==
    (rcLast.op \in PlacementOps /\ rcLast.err # "option_not_allowed") =>
        rcLast.err = FirstViolatedRule(rc.placement_group_strategy,
                                       rc.placement_group_bundles,
                                       rc.ray_actor_options)

\* C11: max_concurrent_queries of a constructed DeploymentConfig is never
\* None and never <= 0; constructing with it omitted or None, or assigning
\* None to it, stores the documented default 100; constructing with, or
\* assigning, 0 or a negative value fails with a validation error.
C11_MaxConcurrentQueriesPositive ==
    LET q == dc.cfg.max_concurrent_queries
        given == dcLast.given
        forQueries == \/ dcLast.op = "construct"
                      \/ dcLast.op = "assign" /\ dcLast.field = "max_concurrent_queries"
    IN  /\ dc.phase = "ready" => (q # None /\ q.n > 0)
        /\ (forQueries /\ given \in {Omitted, None} /\ dc.phase = "ready") =>
              (q = Num(100) /\ (dcLast.op = "assign" => dcLast.err = "ok"))
        /\ (forQueries /\ given \notin {Omitted, None} /\ given.n <= 0) =>
              /\ dcLast.err # "ok"
              /\ dcLast.op = "construct" =>
                    (/\ dc.phase = "failed"
                     /\ "max_concurrent_queries_not_positive" \in dc.errors)

\* C11 witness: None was assigned to max_concurrent_queries of a config
\* whose num_replicas had been set, and the default is stored.
C11_Witness ==
    /\ dc.phase = "ready"
    /\ dcLast.op = "assign"
    /\ dcLast.field = "max_concurrent_queries"
    /\ dcLast.given = None
    /\ dcLast.err = "ok"
    /\ dc.cfg.max_concurrent_queries = Num(100)
    /\ dc.cfg.num_replicas = Num(MaxReplicas)

\* Whether kwargs overrides field f with a value other than DEFAULT.VALUE,
\* and that value.
Overridden(kwargs, f) ==
    \E i \in 1..Len(kwargs) : kwargs[i][1] = f /\ kwargs[i][2] # DEFAULT_VALUE
OverrideOf(kwargs, f) ==
    kwargs[CHOOSE i \in 1..Len(kwargs) : kwargs[i][1] = f][2]

\* The field names of a DeploymentConfig.
DeploymentFieldNames ==
    {"num_replicas", "max_concurrent_queries", "user_config",
     "graceful_shutdown_timeout_s", "graceful_shutdown_wait_loop_s",
     "health_check_period_s", "health_check_timeout_s", "autoscaling_config",
     "is_cross_language", "deployment_language", "version",
     "user_configured_option_names"}

HasUnknownKey(kwargs) ==
    \E i \in 1..Len(kwargs) : kwargs[i][1] \notin DeploymentFieldNames

\* A default DeploymentConfig: DeploymentConfig().
DefaultConfig == DeploymentFields(DefaultDeploymentData)

\* C12 as claimed: from_default(**overrides) fails with a type error if any
\* key is no field name, whatever the values; otherwise the result equals a
\* default config in every field except the overrides whose value is not
\* DEFAULT.VALUE, which hold the given values.
C12_FromDefaultAnyOverrides ==
    dcLast.op = "from_default" =>
        IF HasUnknownKey(dcLast.kwargs)
        THEN dcLast.err = "type_error" /\ dc.phase = "failed"
        ELSE /\ dc.phase = "ready"
             /\ \A f \in DeploymentFieldNames :
                   dc.cfg[f] = IF Overridden(dcLast.kwargs, f)
                               THEN OverrideOf(dcLast.kwargs, f)
                               ELSE DefaultConfig[f]

\* Whether value v passes the validation of the overridden field f.
OverrideValid(f, v) ==
    /\ f = "num_replicas" => v.n >= 0
    /\ f = "max_concurrent_queries" => (v = None \/ v.n > 0)

\* C12 as amended: a key that is no field name gives a type error, whatever
\* the values and before anything is applied; otherwise, if an override
\* other than DEFAULT.VALUE fails its field's validation, from_default fails
\* with a validation error; otherwise the result equals a default config in
\* every field except those overrides, which hold the given values as
\* validated (None for max_concurrent_queries is stored as the default).
C12_FromDefault ==
    dcLast.op = "from_default" =>
        IF HasUnknownKey(dcLast.kwargs)
        THEN dcLast.err = "type_error" /\ dc.phase = "failed"
        ELSE IF \E f \in DeploymentFieldNames :
                   /\ Overridden(dcLast.kwargs, f)
                   /\ ~OverrideValid(f, OverrideOf(dcLast.kwargs, f))
        THEN dcLast.err \notin {"ok", "type_error"} /\ dc.phase = "failed"
        ELSE /\ dc.phase = "ready"
             /\ \A f \in DeploymentFieldNames :
                   dc.cfg[f] =
                       IF ~Overridden(dcLast.kwargs, f) THEN DefaultConfig[f]
                       ELSE IF f = "max_concurrent_queries"
                               /\ OverrideOf(dcLast.kwargs, f) = None
                       THEN DefaultConfig[f]
                       ELSE OverrideOf(dcLast.kwargs, f)

\* C12 witness: from_default(num_replicas=DEFAULT.VALUE,
\* max_concurrent_queries=n) returned a config with only
\* max_concurrent_queries changed.
C12_Witness ==
    /\ dcLast.op = "from_default"
    /\ dcLast.kwargs = << <<"num_replicas", DEFAULT_VALUE>>,
                          <<"max_concurrent_queries", Num(MaxReplicas)>> >>
    /\ dc.phase = "ready"
    /\ dc.cfg.max_concurrent_queries = Num(MaxReplicas)
    /\ dc.cfg.num_replicas = DefaultConfig.num_replicas

\* The field constraints of a DeploymentConfig.
DeploymentFieldsValid ==
    /\ dc.cfg.num_replicas.n >= 0
    /\ dc.cfg.max_concurrent_queries # None
    /\ dc.cfg.max_concurrent_queries.n > 0
    /\ dc.cfg.graceful_shutdown_timeout_s.n >= 0
    /\ dc.cfg.graceful_shutdown_wait_loop_s.n >= 0
    /\ dc.cfg.health_check_period_s.n > 0
    /\ dc.cfg.health_check_timeout_s.n > 0
    /\ dc.cfg.user_config.t \in {"none", "bytes", "num", "str", "dict", "list"}

\* C18: after any sequence of field assignments, successful or failed, a
\* DeploymentConfig satisfies its field constraints; a rejected assignment
\* changes no field, and a successful one changes no field but the one
\* assigned (user_configured_option_names included).
C18_AssignmentsRevalidated ==
    /\ [](dc.phase = "ready" => DeploymentFieldsValid)
    /\ [][dcLast'.op = "assign" =>
             IF dcLast'.err # "ok" THEN dc' = dc
             ELSE \A f \in DeploymentFieldNames \ {dcLast'.field} :
                     dc'.cfg[f] = dc.cfg[f]]_vars

\* C18 witness: an assignment of a non-positive health_check_period_s was
\* rejected on a config whose user_config and num_replicas had been assigned.
C18_Witness ==
    /\ dc.phase = "ready"
    /\ dcLast.op = "assign"
    /\ dcLast.field = "health_check_period_s"
    /\ dcLast.given = Num(0)
    /\ dcLast.err # "ok"
    /\ dc.cfg.health_check_period_s = Num(DEFAULT_HEALTH_CHECK_PERIOD_S)
    /\ dc.cfg.user_config = Raw(<<1>>)
    /\ dc.cfg.num_replicas = Num(0)

\* Whether an init_args or init_kwargs argument was given and is not empty.
GivenNonEmpty(v) ==
    /\ v # None
    /\ v # Tuple(<<>>)
    /\ v # Dict(EmptyMap)

\* C13: ReplicaConfig.create fails with a value error when the code
\* reference is a plain function and non-empty init_args or init_kwargs are
\* given, and with a type error when the code reference is neither callable
\* nor a string; no config is returned then.  With a valid code reference
\* and valid options it returns a config whose init_args is () and
\* init_kwargs is {} when these were omitted, whose actor options are the
\* defaulted {} when omitted, and whose deployment_def_name is the explicit
\* name, or else the string reference itself or the callable's __name__.
C13_CreateErrorsAndDefaults ==
    rrCall.op = "create" =>
        LET d == rrCall.deployment_def
            functionWithArgs ==
                /\ d.t = "function"
                /\ (GivenNonEmpty(rrCall.init_args) \/ GivenNonEmpty(rrCall.init_kwargs))
            codeReference == d.t \in {"function", "class", "str"}
            validOptions ==
                \/ /\ rrCall.placement_group_bundles = None
                   /\ rrCall.placement_group_strategy = None
                \/ /\ rrCall.ray_actor_options # None
                   /\ rrCall.placement_group_bundles # None
        IN  /\ functionWithArgs =>
                  (/\ rr.phase = "failed"
                   /\ rr.err \in {"init_args_for_function", "init_kwargs_for_function"})
            /\ ~codeReference =>
                  (rr.phase = "failed" /\ rr.err = "deployment_def_type_error")
            /\ (codeReference /\ ~functionWithArgs /\ validOptions) =>
                  /\ rr.phase = "ready"
                  /\ rrCall.init_args = None => rr.cache["init_args"] = Tuple(<<>>)
                  /\ rrCall.init_kwargs = None => rr.cache["init_kwargs"] = Dict(EmptyMap)
                  /\ rrCall.ray_actor_options = None =>
                        rr.ray_actor_options = [k \in {Str("num_cpus")} |-> Num(1)]
                  /\ rr.deployment_def_name =
                        IF rrCall.deployment_def_name # None
                        THEN rrCall.deployment_def_name
                        ELSE IF d.t = "str" THEN d ELSE Str(d.name)

\* C13 witness: create(handler) with everything else omitted returned a
\* config named after the function, with init_args = () and init_kwargs = {}.
C13_Witness ==
    /\ rrCall.op = "create"
    /\ rrCall.deployment_def = Function("handler")
    /\ rrCall.init_args = None
    /\ rrCall.init_kwargs = None
    /\ rrCall.ray_actor_options = None
    /\ rrCall.deployment_def_name = None
    /\ rr.phase = "ready"
    /\ rr.deployment_def_name = Str("handler")
    /\ rr.cache["init_args"] = Tuple(<<>>)
    /\ rr.cache["init_kwargs"] = Dict(EmptyMap)

\* C16: the first read of deployment_def, init_args and init_kwargs that
\* finds the cache empty calls the pickle decoding exactly when needs_pickle
\* is true; with needs_pickle = false it never does.
C16_PickleOnlyWhenNeeded ==
    \A a \in Accessors :
        rrReads[a].first \in {"pickle", "other"} =>
            (rrReads[a].first = "pickle" <=> rr.needs_pickle)

\* The value the serialized payload of accessor a decodes to, for the
\* payloads the config was built with (Raised when the decoding raises).
PayloadDecoding(a) ==
    IF rrCall.op = "create"
    THEN IF a = "deployment_def" THEN rrCall.deployment_def
         ELSE IF a = "init_args"
         THEN IF rrCall.init_args = None THEN Tuple(<<>>) ELSE rrCall.init_args
         ELSE IF rrCall.init_kwargs = None THEN Dict(EmptyMap) ELSE rrCall.init_kwargs
    ELSE DecodeOf([rr EXCEPT
                      !.serialized_deployment_def = rrCall.serialized_deployment_def,
                      !.serialized_init_args = rrCall.serialized_init_args,
                      !.serialized_init_kwargs = rrCall.serialized_init_kwargs], a)

\* C17: when two threads read accessors of one ReplicaConfig concurrently,
\* in every interleaving each thread returns the value its accessor's
\* payload decodes to (or raises as the decoding does); once no thread is
\* inside an accessor, the cache of every accessor read holds that value;
\* and the serialized payloads stay as the config was built with.
C17_ConcurrentFirstAccess ==
    rr.phase = "ready" =>
        /\ \A t \in Threads :
              th[t].pc = "done" => th[t].ret = PayloadDecoding(th[t].acc)
        /\ (\A t \in Threads : th[t].pc \in {"idle", "done"}) =>
              \A t \in Threads :
                  (th[t].pc = "done" /\ PayloadDecoding(th[t].acc) # Raised) =>
                      rr.cache[th[t].acc] = PayloadDecoding(th[t].acc)
        /\ rrCall.op = "init" =>
              /\ rr.serialized_deployment_def = rrCall.serialized_deployment_def
              /\ rr.serialized_init_args = rrCall.serialized_init_args
              /\ rr.serialized_init_kwargs = rrCall.serialized_init_kwargs

\* C17 witness: both threads read init_args of a constructor-built config,
\* both found the cache empty and decoded (one is still about to store its
\* value while the other has returned), a value was decoded.
C17_Witness ==
    /\ rrCall.op = "init"
    /\ rr.phase = "ready"
    /\ th["t1"].acc = "init_args"
    /\ th["t2"].acc = "init_args"
    /\ th["t1"].pc = "done"
    /\ th["t1"].ret = Tuple(<<Num(1)>>)
    /\ th["t2"].pc = "store"
    /\ th["t2"].tmp = Tuple(<<Num(1)>>)

====
